---- MODULE Spec2Model ----
(***************************************************************************)
(* A model of the bignum layer of src/CryptographyCore/context/ctx_bn.c:   *)
(* the fixed-capacity BIGNUM value type and the BN_CTX pool allocator with *)
(* its stack of checkpoints.                                               *)
(*                                                                         *)
(* REQUIRES_x / ENSURES_x are cryptlib's internal-consistency macros: when *)
(* the condition is false the function returns its failure value at that   *)
(* point (after a debug-build assertion), keeping whatever it has already  *)
(* written.  The model follows the returning (release-build) behaviour.    *)
(***************************************************************************)
EXTENDS Integers, Sequences, FiniteSets, TLC

(***************************************************************************)
(* Sizes.  The header that sets them is not part of the sources at hand;   *)
(* the model uses scaled-down values.                                      *)
(***************************************************************************)
\* Number of standard bignums in a BN_CTX, and of checkpoint-stack entries.
BN_CTX_ARRAY_SIZE == 4
\* Words of storage in a standard bignum.
BIGNUM_ALLOC_WORDS == 2
\* Bits in one BN_ULONG word.
BN_BITS2 == 2
\* Slots of the two extended arrays, as indexed by BN_CTX_get_ext.
BN_CTX_EXTARRAY_SIZE == 1
BN_CTX_EXT2ARRAY_SIZE == 2

BIGNUM_ALLOC_WORDS_EXT == BIGNUM_ALLOC_WORDS + 1
BIGNUM_ALLOC_WORDS_EXT2 == BIGNUM_ALLOC_WORDS + 2

RECURSIVE Pow2(_)
Pow2(n) == IF n = 0 THEN 1 ELSE 2 * Pow2(n - 1)

WordMax == Pow2(BN_BITS2) - 1
Word == 0 .. WordMax

\* The null pointer; a pointer to a bignum is <<array, index>>.
NULL == <<>>

BN_FLG_MALLOCED == "BN_FLG_MALLOCED"
BN_FLG_STATIC_DATA == "BN_FLG_STATIC_DATA"
BN_FLG_ALLOC_EXT == "BN_FLG_ALLOC_EXT"
BN_FLG_ALLOC_EXT2 == "BN_FLG_ALLOC_EXT2"
BN_FLG_ALL == {BN_FLG_MALLOCED, BN_FLG_STATIC_DATA, BN_FLG_ALLOC_EXT, BN_FLG_ALLOC_EXT2}

BIGNUM_EXT_NONE == "BIGNUM_EXT_NONE"
BIGNUM_EXT_MONT == "BIGNUM_EXT_MONT"
BIGNUM_EXT_MUL1 == "BIGNUM_EXT_MUL1"
BIGNUM_EXT_MUL2 == "BIGNUM_EXT_MUL2"
BIGNUM_EXT_LAST == "BIGNUM_EXT_LAST"
BIGNUM_EXT_TYPE ==
    {BIGNUM_EXT_NONE, BIGNUM_EXT_MONT, BIGNUM_EXT_MUL1, BIGNUM_EXT_MUL2, BIGNUM_EXT_LAST}

(***************************************************************************)
(* State.                                                                  *)
(*   bnCTX   the BN_CTX: bnArray, bnExtArray, bnExt2Array, bnArrayMax,     *)
(*           stack, stackPos                                               *)
(*   frames  the caller's open checkpoints, innermost last: for each, the  *)
(*           active top seen just before its BN_CTX_start, and the slots   *)
(*           BN_CTX_get has handed out in it                               *)
(*   base    the slots handed out before any BN_CTX_start                  *)
(*   overrun TRUE once BN_CTX_start has stored past the end of stack[]     *)
(*   op, arg, ret   the last call made on the BN_CTX, its bnExtType        *)
(*           argument if it has one, and what it returned                  *)
(*   pc, x, y, x0, y0, bop, barg, bret   the bignum-operation harness      *)
(*   recp    a BN_RECP_CTX: N, Nr, num_bits                                *)
(***************************************************************************)
VARIABLES bnCTX, frames, base, overrun, op, arg, ret,
          pc, x, y, x0, y0, bop, barg, bret, recp

ctxVars == <<bnCTX, frames, base, overrun, op, arg, ret>>
bnVars == <<pc, x, y, x0, y0, bop, barg, bret, recp>>
vars == <<bnCTX, frames, base, overrun, op, arg, ret,
          pc, x, y, x0, y0, bop, barg, bret, recp>>

(***************************************************************************)
(* Bignums                                                                 *)
(***************************************************************************)
getBNMaxSize(bignum) ==
    IF BN_FLG_ALLOC_EXT \in bignum.flags THEN BIGNUM_ALLOC_WORDS_EXT
    ELSE IF BN_FLG_ALLOC_EXT2 \in bignum.flags THEN BIGNUM_ALLOC_WORDS_EXT2
    ELSE BIGNUM_ALLOC_WORDS

sanityCheckBignum(bignum) ==
    /\ ~(bignum.dmax < 1 \/ bignum.dmax > getBNMaxSize(bignum))
    /\ ~(bignum.top < 0 \/ bignum.top > bignum.dmax)
    /\ bignum.neg \in BOOLEAN
    /\ bignum.flags \subseteq BN_FLG_ALL

\* zeroise( d, bnWordsToBytes( n ) ): the first n words of d become 0.
zeroise(d, n) == [i \in DOMAIN d |-> IF i < n THEN 0 ELSE d[i]]

\* A mutation of BN_clear that wipes only the words in use.
BN_clear_UsedWordsOnly(bignum) ==
    IF ~sanityCheckBignum(bignum) THEN bignum
    ELSE IF BN_FLG_STATIC_DATA \notin bignum.flags
         THEN [bignum EXCEPT !.d = zeroise(bignum.d, bignum.top), !.top = 0, !.neg = FALSE]
         ELSE bignum

BN_clear(bignum) ==
    IF ~sanityCheckBignum(bignum) THEN bignum
    ELSE IF BN_FLG_STATIC_DATA \notin bignum.flags
         THEN [bignum EXCEPT !.d = zeroise(bignum.d, bignum.dmax), !.top = 0, !.neg = FALSE]
         ELSE bignum

\* memset( bignum, 0, sizeof( BIGNUM ) ); dmax = BIGNUM_ALLOC_WORDS
BN_init ==
    [dmax |-> BIGNUM_ALLOC_WORDS, top |-> 0, neg |-> FALSE, flags |-> {},
     d |-> [i \in 0 .. BIGNUM_ALLOC_WORDS - 1 |-> 0]]

BN_init_ext(isExt2Bignum) ==
    IF isExt2Bignum
    THEN [dmax |-> BIGNUM_ALLOC_WORDS_EXT2, top |-> 0, neg |-> FALSE,
          flags |-> {BN_FLG_ALLOC_EXT2},
          d |-> [i \in 0 .. BIGNUM_ALLOC_WORDS_EXT2 - 1 |-> 0]]
    ELSE [dmax |-> BIGNUM_ALLOC_WORDS_EXT, top |-> 0, neg |-> FALSE,
          flags |-> {BN_FLG_ALLOC_EXT},
          d |-> [i \in 0 .. BIGNUM_ALLOC_WORDS_EXT - 1 |-> 0]]

\* A bignum is cleared: no used words, no sign, every word of storage zero.
IsCleared(bignum) ==
    /\ bignum.top = 0
    /\ bignum.neg = FALSE
    /\ \A i \in DOMAIN bignum.d : bignum.d[i] = 0

\* The constant bignum BN_value_one returns.
BN_value_one ==
    [dmax |-> BIGNUM_ALLOC_WORDS, top |-> 1, neg |-> FALSE,
     flags |-> {BN_FLG_STATIC_DATA},
     d |-> [i \in 0 .. BIGNUM_ALLOC_WORDS - 1 |-> IF i = 0 THEN 1 ELSE 0]]

\* BN_is_zero( bignum ): a value of zero has no words in use.
BN_is_zero(bignum) == bignum.top = 0

\* C integer division and remainder, which truncate towards zero.
CDiv(a, b) == IF a >= 0 THEN a \div b ELSE -((-a) \div b)
CMod(a, b) == a - b * CDiv(a, b)

\* word & ( ( BN_ULONG ) 1 << bitIndex ), as a truth value.
TestBit(word, bitIndex) == (word \div Pow2(bitIndex)) % 2 = 1
\* word | ( ( BN_ULONG ) 1 << bitIndex )
OrBit(word, bitIndex) ==
    IF TestBit(word, bitIndex) THEN word ELSE word + Pow2(bitIndex)

(* BN_copy.  ret is TRUE when destBignum is returned, FALSE when NULL is.  *)
BN_copy(destBignum, srcBignum) ==
    IF ~sanityCheckBignum(destBignum) THEN [bn |-> destBignum, ret |-> FALSE]
    ELSE IF ~sanityCheckBignum(srcBignum) THEN [bn |-> destBignum, ret |-> FALSE]
    ELSE IF ~(destBignum.dmax >= srcBignum.top) THEN [bn |-> destBignum, ret |-> FALSE]
    ELSE [bn |-> [destBignum EXCEPT
                    !.d = [i \in DOMAIN destBignum.d |->
                              IF i < srcBignum.top THEN srcBignum.d[i]
                              ELSE destBignum.d[i]],
                    !.top = srcBignum.top,
                    !.neg = srcBignum.neg],
          ret |-> TRUE]

(* BN_new.  allocated tells whether clAlloc returned memory; ret is TRUE   *)
(* when a bignum is returned, FALSE when NULL is.                          *)
BN_new(allocated) ==
    IF ~allocated THEN [bn |-> NULL, ret |-> FALSE]
    ELSE [bn |-> [BN_init EXCEPT !.flags = {BN_FLG_MALLOCED}], ret |-> TRUE]

\* A mutation of BN_dup that returns the new bignum without copying.
BN_dup_NoCopy(bignum, allocated) ==
    LET newBignum == BN_new(allocated)
    IN IF ~newBignum.ret THEN [bn |-> NULL, ret |-> FALSE]
       ELSE [bn |-> newBignum.bn, ret |-> TRUE]

(* BN_dup.  When BN_copy fails the new bignum is freed and NULL returned.  *)
BN_dup(bignum, allocated) ==
    LET newBignum == BN_new(allocated)
    IN IF ~newBignum.ret THEN [bn |-> NULL, ret |-> FALSE]
       ELSE LET copied == BN_copy(newBignum.bn, bignum)
            IN IF ~copied.ret THEN [bn |-> NULL, ret |-> FALSE]
               ELSE [bn |-> copied.bn, ret |-> TRUE]

\* A mutation of BN_swap that copies without going through tmp.
BN_swap_NoTmp(bignum1, bignum2) ==
    IF BN_FLG_STATIC_DATA \in bignum1.flags
    THEN [bn1 |-> bignum1, bn2 |-> bignum2, ret |-> FALSE]
    ELSE LET c2 == BN_copy(bignum1, bignum2)
             c3 == IF c2.ret THEN BN_copy(bignum2, c2.bn)
                   ELSE [bn |-> bignum2, ret |-> FALSE]
         IN [bn1 |-> c2.bn, bn2 |-> c3.bn, ret |-> c3.ret]

(* BN_swap.  Both REQUIRES_V lines test bignum1.  ret is the truth of the  *)
(* closing ENSURES_V( bnPtr != NULL ); the function itself returns void.   *)
BN_swap(bignum1, bignum2) ==
    IF BN_FLG_STATIC_DATA \in bignum1.flags
    THEN [bn1 |-> bignum1, bn2 |-> bignum2, ret |-> FALSE]
    ELSE LET c1 == BN_copy(BN_init, bignum1)
             c2 == IF c1.ret THEN BN_copy(bignum1, bignum2)
                   ELSE [bn |-> bignum1, ret |-> FALSE]
             c3 == IF c2.ret THEN BN_copy(bignum2, c1.bn)
                   ELSE [bn |-> bignum2, ret |-> FALSE]
         IN [bn1 |-> c2.bn, bn2 |-> c3.bn, ret |-> c3.ret]

\* The value BN_get_word returns for a bignum that does not fit a word:
\* the all-ones word.
BN_NAN == WordMax

BN_get_word(bignum) ==
    IF ~sanityCheckBignum(bignum) THEN BN_NAN
    ELSE IF bignum.top > 1 THEN BN_NAN
    ELSE IF bignum.top < 1 THEN 0
    ELSE bignum.d[0]

\* A mutation of BN_set_word that stores the word without clearing the
\* bignum first.
BN_set_word_NoClear(bignum, word) ==
    IF ~sanityCheckBignum(bignum) THEN [bn |-> bignum, ret |-> FALSE]
    ELSE IF BN_FLG_STATIC_DATA \in bignum.flags THEN [bn |-> bignum, ret |-> FALSE]
    ELSE [bn |-> [bignum EXCEPT !.d[0] = word,
                                !.top = IF word # 0 THEN 1 ELSE 0],
          ret |-> TRUE]

\* A mutation of BN_set_word that counts one word in use whatever the word.
BN_set_word_TopAlways(bignum, word) ==
    IF ~sanityCheckBignum(bignum) THEN [bn |-> bignum, ret |-> FALSE]
    ELSE IF BN_FLG_STATIC_DATA \in bignum.flags THEN [bn |-> bignum, ret |-> FALSE]
    ELSE [bn |-> [BN_clear(bignum) EXCEPT !.d[0] = word, !.top = 1],
          ret |-> TRUE]

BN_set_word(bignum, word) ==
    IF ~sanityCheckBignum(bignum) THEN [bn |-> bignum, ret |-> FALSE]
    ELSE IF BN_FLG_STATIC_DATA \in bignum.flags THEN [bn |-> bignum, ret |-> FALSE]
    ELSE [bn |-> [BN_clear(bignum) EXCEPT !.d[0] = word,
                                         !.top = IF word # 0 THEN 1 ELSE 0],
          ret |-> TRUE]

\* The status a failed ENSURES returns.
CRYPT_ERROR_INTERNAL == -16
cryptStatusError(status) == status < 0

\* The loop of BN_num_bits_word: the value of i on leaving it.
RECURSIVE NumBitsLoop(_, _)
NumBitsLoop(value, i) ==
    IF i < 128 /\ value > 0 THEN NumBitsLoop(value \div 2, i + 1) ELSE i

BN_num_bits_word(word) ==
    LET i == NumBitsLoop(word, 0)
    IN IF ~(i < 128) THEN CRYPT_ERROR_INTERNAL ELSE i

\* A mutation of BN_num_bits that leaves out the words below the last one.
BN_num_bits_LastWordOnly(bignum) ==
    LET lastWordIndex == bignum.top - 1
    IN IF ~sanityCheckBignum(bignum) THEN CRYPT_ERROR_INTERNAL
       ELSE IF bignum.top <= 0 THEN 0
       ELSE BN_num_bits_word(bignum.d[lastWordIndex])

BN_num_bits(bignum) ==
    LET lastWordIndex == bignum.top - 1
    IN IF ~sanityCheckBignum(bignum) THEN CRYPT_ERROR_INTERNAL
       ELSE IF bignum.top <= 0 THEN 0
       ELSE LET bits == BN_num_bits_word(bignum.d[lastWordIndex])
            IN IF cryptStatusError(bits) THEN bits
               ELSE (lastWordIndex * BN_BITS2) + bits

(* BN_set_bit.  The zero-filling loop leaves index = wordIndex + 1, which  *)
(* ENSURES_B then compares with iterationBound = getBNMaxSize( bignum ).   *)
BN_set_bit(bignum, bitNo) ==
    LET wordIndex == CDiv(bitNo, BN_BITS2)
        bitIndex == CMod(bitNo, BN_BITS2)
        iterationBound == getBNMaxSize(bignum)
    IN IF ~sanityCheckBignum(bignum) THEN [bn |-> bignum, ret |-> FALSE]
       ELSE IF BN_FLG_STATIC_DATA \in bignum.flags THEN [bn |-> bignum, ret |-> FALSE]
       ELSE IF ~(bitNo >= 0 /\ bitNo < bignum.dmax * BN_BITS2)
            THEN [bn |-> bignum, ret |-> FALSE]
       ELSE IF bignum.top < wordIndex + 1
            THEN IF ~(wordIndex < bignum.dmax) THEN [bn |-> bignum, ret |-> FALSE]
                 ELSE LET zeroed == [bignum EXCEPT
                                       !.d = [i \in DOMAIN bignum.d |->
                                                 IF i >= bignum.top /\ i < wordIndex + 1
                                                 THEN 0 ELSE bignum.d[i]]]
                          index == wordIndex + 1
                      IN IF ~(index < iterationBound)
                         THEN [bn |-> zeroed, ret |-> FALSE]
                         ELSE LET new == [zeroed EXCEPT
                                            !.top = wordIndex + 1,
                                            !.d[wordIndex] = OrBit(@, bitIndex)]
                              IN [bn |-> new, ret |-> sanityCheckBignum(new)]
            ELSE LET new == [bignum EXCEPT !.d[wordIndex] = OrBit(@, bitIndex)]
                 IN [bn |-> new, ret |-> sanityCheckBignum(new)]

\* A mutation of BN_is_bit_set that reads the word whether or not it is
\* in use.
BN_is_bit_set_NoTopTest(bignum, bitNo) ==
    LET wordIndex == CDiv(bitNo, BN_BITS2)
        bitIndex == CMod(bitNo, BN_BITS2)
    IN IF ~sanityCheckBignum(bignum) THEN FALSE
       ELSE IF ~(bitNo < bignum.dmax * BN_BITS2) THEN FALSE
       ELSE IF bitNo < 0 THEN FALSE
       ELSE TestBit(bignum.d[wordIndex], bitIndex)

BN_is_bit_set(bignum, bitNo) ==
    LET wordIndex == CDiv(bitNo, BN_BITS2)
        bitIndex == CMod(bitNo, BN_BITS2)
    IN IF ~sanityCheckBignum(bignum) THEN FALSE
       ELSE IF ~(bitNo < bignum.dmax * BN_BITS2) THEN FALSE
       ELSE IF bitNo < 0 THEN FALSE
       ELSE IF wordIndex >= bignum.top THEN FALSE
       ELSE TestBit(bignum.d[wordIndex], bitIndex)

\* BN_set_negative: no sanity check and no test of BN_FLG_STATIC_DATA.
BN_set_negative(bignum, value) ==
    IF BN_is_zero(bignum) THEN bignum
    ELSE [bignum EXCEPT !.neg = (value # 0)]

\* The loop of BN_normalise: returns top and iterationCount on leaving it.
RECURSIVE NormaliseLoop(_, _, _, _)
NormaliseLoop(d, top, iterationCount, iterationBound) ==
    IF top > 0 /\ iterationCount < iterationBound
    THEN IF d[top - 1] # 0
         THEN [top |-> top, iterationCount |-> iterationCount]
         ELSE NormaliseLoop(d, top - 1, iterationCount + 1, iterationBound)
    ELSE [top |-> top, iterationCount |-> iterationCount]

BN_normalise(bignum) ==
    LET iterationBound == getBNMaxSize(bignum)
    IN IF ~sanityCheckBignum(bignum) THEN [bn |-> bignum, ret |-> FALSE]
       ELSE IF BN_is_zero(bignum) THEN [bn |-> bignum, ret |-> TRUE]
       ELSE LET loop == NormaliseLoop(bignum.d, bignum.top, 0, iterationBound)
                new == [bignum EXCEPT !.top = loop.top]
            IN IF ~(loop.iterationCount < iterationBound)
               THEN [bn |-> new, ret |-> FALSE]
               ELSE [bn |-> new, ret |-> sanityCheckBignum(new)]

\* BN_zero( bignum ): the bignum becomes zero.
BN_zero(bignum) == BN_set_word(bignum, 0).bn

\* memset( bnRecpCTX, 0, sizeof( BN_RECP_CTX ) ), then BN_init of N and Nr.
BN_RECP_CTX_init ==
    [N |-> BN_init, Nr |-> BN_init, num_bits |-> 0]

\* BN_RECP_CTX_free: N and Nr are cleared, num_bits is left as it was.
BN_RECP_CTX_free(bnRecpCTX) ==
    [bnRecpCTX EXCEPT !.N = BN_clear(@), !.Nr = BN_clear(@)]

\* A mutation of BN_RECP_CTX_set that does not record the bit-length.
BN_RECP_CTX_set_NoNumBits(bnRecpCTX, d) ==
    LET inited == BN_RECP_CTX_init
        copied == BN_copy(inited.N, d)
    IN IF ~copied.ret THEN [ctx |-> [inited EXCEPT !.N = copied.bn], ret |-> FALSE]
       ELSE [ctx |-> [inited EXCEPT !.N = copied.bn, !.Nr = BN_zero(inited.Nr)],
             ret |-> TRUE]

(* BN_RECP_CTX_set.  The context is initialised again whatever it held;    *)
(* bnCTX is not used.                                                      *)
BN_RECP_CTX_set(bnRecpCTX, d) ==
    LET inited == BN_RECP_CTX_init
        copied == BN_copy(inited.N, d)
    IN IF ~copied.ret THEN [ctx |-> [inited EXCEPT !.N = copied.bn], ret |-> FALSE]
       ELSE [ctx |-> [inited EXCEPT !.N = copied.bn,
                                    !.Nr = BN_zero(inited.Nr),
                                    !.num_bits = BN_num_bits(d)],
             ret |-> TRUE]

(***************************************************************************)
(* BN_CTX                                                                  *)
(***************************************************************************)
sanityCheckBNCTX(ctx) ==
    /\ ~(ctx.bnArrayMax < 0 \/ ctx.bnArrayMax > BN_CTX_ARRAY_SIZE)
    /\ ~(ctx.stackPos < 0 \/ ctx.stackPos >= BN_CTX_ARRAY_SIZE)

BN_CTX_init ==
    [bnArray |-> [i \in 0 .. BN_CTX_ARRAY_SIZE - 1 |-> BN_init],
     bnExtArray |-> [i \in 0 .. BN_CTX_EXTARRAY_SIZE - 1 |-> BN_init_ext(FALSE)],
     bnExt2Array |-> [i \in 0 .. BN_CTX_EXT2ARRAY_SIZE - 1 |-> BN_init_ext(TRUE)],
     bnArrayMax |-> 0,
     stack |-> [i \in 0 .. BN_CTX_ARRAY_SIZE - 1 |-> 0],
     stackPos |-> 0]

\* zeroise( bnCTX ) followed by re-initialising every bignum.
BN_CTX_final(ctx) ==
    IF ~sanityCheckBNCTX(ctx) THEN ctx ELSE BN_CTX_init

(* BN_CTX_start.  With stackPos = BN_CTX_ARRAY_SIZE - 1 on entry the store  *)
(* to stack[ stackPos ] goes one element past the end of stack[]: undefined *)
(* behaviour.  stackPos is declared next to stack[] in BN_CTX, so the store *)
(* either overwrites stackPos itself (onStackPos) or lands in memory the    *)
(* model does not track.  The closing ENSURES_V only returns.               *)
BN_CTX_start(ctx, onStackPos) ==
    IF ~sanityCheckBNCTX(ctx) THEN ctx
    ELSE LET pos == ctx.stackPos + 1
         IN IF pos < BN_CTX_ARRAY_SIZE
            THEN [ctx EXCEPT !.stackPos = pos, !.stack[pos] = ctx.stack[pos - 1]]
            ELSE IF onStackPos
                 THEN [ctx EXCEPT !.stackPos = ctx.stack[pos - 1]]
                 ELSE [ctx EXCEPT !.stackPos = pos]

\* The clearing loop of BN_CTX_end: returns the array and the final i.
RECURSIVE EndLoop(_, _, _)
EndLoop(bnArray, i, limit) ==
    IF i < limit /\ i < BN_CTX_ARRAY_SIZE
    THEN EndLoop([bnArray EXCEPT ![i] = BN_clear(bnArray[i])], i + 1, limit)
    ELSE [bnArray |-> bnArray, i |-> i]

(* The values the read of stack[ stackPos - 1 ] can yield when stackPos is  *)
(* 0: the element before stack[] is outside the array, so the read is      *)
(* undefined behaviour; it yields whatever int is stored there, here any   *)
(* of the values a boundary or bnArrayMax takes.                           *)
StackBelow == 0 .. BN_CTX_ARRAY_SIZE

\* The values to consider for a call on ctx: the read is outside stack[]
\* only when stackPos is 0, otherwise below is never consulted.
BelowOf(ctx) == IF ctx.stackPos = 0 THEN StackBelow ELSE {0}

\* stack[ index ] as BN_CTX_end reads it; below is what the read of
\* stack[ -1 ] yields.
StackAt(ctx, index, below) ==
    IF index \in DOMAIN ctx.stack THEN ctx.stack[index] ELSE below

\* A mutation of BN_CTX_end that clears from the bottom of the pool.
BN_CTX_end_ClearFromZero(ctx, below) ==
    IF ~sanityCheckBNCTX(ctx) THEN ctx
    ELSE IF ~(StackAt(ctx, ctx.stackPos - 1, below) <= ctx.stack[ctx.stackPos]) THEN ctx
    ELSE LET loop == EndLoop(ctx.bnArray, 0, ctx.stack[ctx.stackPos])
             cleared == [ctx EXCEPT !.bnArray = loop.bnArray]
         IN IF ~(loop.i < BN_CTX_ARRAY_SIZE) THEN cleared
            ELSE [cleared EXCEPT !.stack[ctx.stackPos] = 0,
                                 !.stackPos = ctx.stackPos - 1]

(* BN_CTX_end.  With stackPos = 0 the REQUIRES_V and the loop read         *)
(* stack[ -1 ], which yields below; the frame is then unwound as usual and *)
(* stackPos becomes -1.  The closing ENSURES_V only returns.               *)
BN_CTX_end(ctx, below) ==
    IF ~sanityCheckBNCTX(ctx) THEN ctx
    ELSE IF ~(StackAt(ctx, ctx.stackPos - 1, below) <= ctx.stack[ctx.stackPos]) THEN ctx
    ELSE LET loop == EndLoop(ctx.bnArray, StackAt(ctx, ctx.stackPos - 1, below),
                             ctx.stack[ctx.stackPos])
             cleared == [ctx EXCEPT !.bnArray = loop.bnArray]
         IN IF ~(loop.i < BN_CTX_ARRAY_SIZE) THEN cleared
            ELSE [cleared EXCEPT !.stack[ctx.stackPos] = 0,
                                 !.stackPos = ctx.stackPos - 1]

\* A mutation of BN_CTX_get without the exhaustion test: the index wraps.
BN_CTX_get_NoLimit(ctx) ==
    IF ~sanityCheckBNCTX(ctx) THEN [ctx |-> ctx, ret |-> NULL]
    ELSE LET arrayIndex == (ctx.stack[ctx.stackPos] % BN_CTX_ARRAY_SIZE) + 1
             new == [ctx EXCEPT !.stack[ctx.stackPos] = arrayIndex,
                                !.bnArrayMax = IF arrayIndex > ctx.bnArrayMax
                                               THEN arrayIndex ELSE ctx.bnArrayMax]
         IN [ctx |-> new, ret |-> <<"bnArray", arrayIndex - 1>>]

\* A mutation of BN_CTX_get that does not maintain bnArrayMax.
BN_CTX_get_NoMax(ctx) ==
    IF ctx.bnArrayMax >= BN_CTX_ARRAY_SIZE THEN [ctx |-> ctx, ret |-> NULL]
    ELSE IF ~sanityCheckBNCTX(ctx) THEN [ctx |-> ctx, ret |-> NULL]
    ELSE IF ctx.stack[ctx.stackPos] >= BN_CTX_ARRAY_SIZE THEN [ctx |-> ctx, ret |-> NULL]
    ELSE [ctx |-> [ctx EXCEPT !.stack[ctx.stackPos] = ctx.stack[ctx.stackPos] + 1],
          ret |-> <<"bnArray", ctx.stack[ctx.stackPos]>>]

\* BN_CTX_get refusing one slot early: the exhaustion test compares
\* bnArrayMax with BN_CTX_ARRAY_SIZE - 1.
BN_CTX_get_EarlyLimit(ctx) ==
    IF ctx.bnArrayMax >= BN_CTX_ARRAY_SIZE - 1 THEN [ctx |-> ctx, ret |-> NULL]
    ELSE IF ~sanityCheckBNCTX(ctx) THEN [ctx |-> ctx, ret |-> NULL]
    ELSE LET arrayIndex == ctx.stack[ctx.stackPos] + 1
             new == [ctx EXCEPT !.stack[ctx.stackPos] = arrayIndex,
                                !.bnArrayMax = IF arrayIndex > ctx.bnArrayMax
                                               THEN arrayIndex ELSE ctx.bnArrayMax]
         IN IF ~sanityCheckBNCTX(new) THEN [ctx |-> new, ret |-> NULL]
            ELSE [ctx |-> new, ret |-> <<"bnArray", arrayIndex - 1>>]

(* BN_CTX_get.  ret points at the bignum in bnArray that is returned, or   *)
(* is NULL.  The exhaustion test comes before the sanity check; arrayIndex is *)
(* used only after both.                                                   *)
BN_CTX_get(ctx) ==
    IF ctx.bnArrayMax >= BN_CTX_ARRAY_SIZE THEN [ctx |-> ctx, ret |-> NULL]
    ELSE IF ~sanityCheckBNCTX(ctx) THEN [ctx |-> ctx, ret |-> NULL]
    ELSE LET arrayIndex == ctx.stack[ctx.stackPos] + 1
             new == [ctx EXCEPT !.stack[ctx.stackPos] = arrayIndex,
                                !.bnArrayMax = IF arrayIndex > ctx.bnArrayMax
                                               THEN arrayIndex ELSE ctx.bnArrayMax]
         IN IF ~sanityCheckBNCTX(new) THEN [ctx |-> new, ret |-> NULL]
            ELSE [ctx |-> new, ret |-> <<"bnArray", arrayIndex - 1>>]

\* BN_CTX_get_ext without the range check on the tag: every tag that is not
\* one of the two multiplication tags is served from bnExtArray.
BN_CTX_get_ext_NoRangeCheck(ctx, bnExtType) ==
    IF bnExtType = BIGNUM_EXT_MUL1 THEN <<"bnExt2Array", 0>>
    ELSE IF bnExtType = BIGNUM_EXT_MUL2 THEN <<"bnExt2Array", 1>>
    ELSE <<"bnExtArray", 0>>

(* BN_CTX_get_ext.  ret names the extended bignum returned: the array and  *)
(* the index in it, or NULL.                                               *)
BN_CTX_get_ext(ctx, bnExtType) ==
    IF bnExtType \notin {BIGNUM_EXT_MONT, BIGNUM_EXT_MUL1, BIGNUM_EXT_MUL2} THEN NULL
    ELSE IF bnExtType = BIGNUM_EXT_MONT THEN <<"bnExtArray", 0>>
    ELSE IF bnExtType = BIGNUM_EXT_MUL1 THEN <<"bnExt2Array", 0>>
    ELSE <<"bnExt2Array", 1>>

\* The extended bignum a BN_CTX_get_ext result points at.
ExtAt(ctx, ptr) == ctx[ptr[1]][ptr[2]]

\* BN_clear( BN_CTX_get_ext( bnCTX, bnExtType ) )
ClearExt(ctx, bnExtType) ==
    LET ptr == BN_CTX_get_ext(ctx, bnExtType)
    IN [ctx EXCEPT ![ptr[1]][ptr[2]] = BN_clear(ExtAt(ctx, ptr))]

\* A mutation of BN_CTX_end_ext that leaves the extended bignums alone.
BN_CTX_end_ext_NoExtClear(ctx, bnExtType, below) ==
    BN_CTX_end(ctx, below)

(* BN_CTX_end_ext: the standard cleanup, then the extended bignums of the  *)
(* type given, which must be MUL1 (clears MUL1 and MUL2) or MONT.          *)
BN_CTX_end_ext(ctx, bnExtType, below) ==
    LET ended == BN_CTX_end(ctx, below)
    IN IF ~(bnExtType = BIGNUM_EXT_MUL1 \/ bnExtType = BIGNUM_EXT_MONT) THEN ended
       ELSE IF bnExtType = BIGNUM_EXT_MUL1
            THEN ClearExt(ClearExt(ended, BIGNUM_EXT_MUL1), BIGNUM_EXT_MUL2)
            ELSE ClearExt(ended, BIGNUM_EXT_MONT)

(***************************************************************************)
(* The calls a user of a BN_CTX makes.                                     *)
(***************************************************************************)
\* What a caller leaves in the bignum at slot i after computing into it:
\* nonzero data in every word of storage, some words in use, a sign.
WriteInto(bignum, i) ==
    [bignum EXCEPT !.d = [k \in DOMAIN bignum.d |-> WordMax],
                   !.top = (i % bignum.dmax) + 1,
                   !.neg = TRUE]

\* Checkpoints the caller may have open at once: enough to run off the
\* end of stack[].
MaxNest == BN_CTX_ARRAY_SIZE

\* stack[ stackPos ] where stackPos indexes the array.
ActiveTop(ctx) ==
    IF ctx.stackPos \in DOMAIN ctx.stack THEN ctx.stack[ctx.stackPos] ELSE -1

\* The slots handed out by BN_CTX_get in checkpoints the caller has not
\* ended.
LiveSlots == base \cup UNION {frames[k].slots : k \in 1 .. Len(frames)}

CtxInit ==
    /\ bnCTX = BN_CTX_init
    /\ frames = <<>>
    /\ base = {}
    /\ overrun = FALSE
    /\ op = "init"
    /\ arg = BIGNUM_EXT_NONE
    /\ ret = NULL

BnIdle ==
    /\ pc = "idle"
    /\ x = BN_init
    /\ y = BN_init
    /\ x0 = BN_init
    /\ y0 = BN_init
    /\ bop = "none"
    /\ barg = 0
    /\ bret = FALSE
    /\ recp = BN_RECP_CTX_init

Init == CtxInit /\ BnIdle

Start ==
    /\ Len(frames) < MaxNest
    /\ \E onStackPos \in BOOLEAN : bnCTX' = BN_CTX_start(bnCTX, onStackPos)
    /\ frames' = Append(frames, [mark |-> ActiveTop(bnCTX), slots |-> {}])
    /\ overrun' = (overrun \/ (sanityCheckBNCTX(bnCTX)
                               /\ bnCTX.stackPos + 1 >= BN_CTX_ARRAY_SIZE))
    /\ op' = "start"
    /\ arg' = BIGNUM_EXT_NONE
    /\ ret' = NULL
    /\ UNCHANGED base

Get ==
    LET r == BN_CTX_get(bnCTX)
    IN /\ bnCTX' = r.ctx
       /\ ret' = r.ret
       /\ op' = "get"
       /\ arg' = BIGNUM_EXT_NONE
       /\ UNCHANGED overrun
       /\ IF r.ret = NULL THEN UNCHANGED <<frames, base>>
          ELSE IF frames = <<>>
               THEN /\ base' = base \cup {r.ret[2]}
                    /\ UNCHANGED frames
               ELSE /\ frames' = [frames EXCEPT ![Len(frames)].slots = @ \cup {r.ret[2]}]
                    /\ UNCHANGED base

(* BN_CTX_end is only called to close a checkpoint the caller has open.    *)
(* stackPos is 0 with a checkpoint open only after a BN_CTX_start has run  *)
(* off the end of stack[].                                                 *)
End ==
    /\ frames # <<>>
    /\ \E below \in BelowOf(bnCTX) : bnCTX' = BN_CTX_end(bnCTX, below)
    /\ frames' = SubSeq(frames, 1, Len(frames) - 1)
    /\ op' = "end"
    /\ arg' = BIGNUM_EXT_NONE
    /\ ret' = NULL
    /\ UNCHANGED <<base, overrun>>

\* The caller computes into a bignum it obtained in a checkpoint still open.
Write ==
    \E i \in LiveSlots :
        /\ bnCTX' = [bnCTX EXCEPT !.bnArray[i] = WriteInto(bnCTX.bnArray[i], i)]
        /\ op' = "write"
        /\ arg' = BIGNUM_EXT_NONE
        /\ ret' = NULL
        /\ UNCHANGED <<frames, base, overrun>>

GetExt ==
    \E bnExtType \in BIGNUM_EXT_TYPE :
        /\ ret' = BN_CTX_get_ext(bnCTX, bnExtType)
        /\ op' = "get_ext"
        /\ arg' = bnExtType
        /\ UNCHANGED <<bnCTX, frames, base, overrun>>

\* The caller computes into an extended bignum.
WriteExt ==
    \E bnExtType \in {BIGNUM_EXT_MONT, BIGNUM_EXT_MUL1, BIGNUM_EXT_MUL2} :
        LET ptr == BN_CTX_get_ext(bnCTX, bnExtType)
        IN /\ bnCTX' = [bnCTX EXCEPT ![ptr[1]][ptr[2]] = WriteInto(ExtAt(bnCTX, ptr), 0)]
           /\ op' = "write_ext"
           /\ arg' = bnExtType
           /\ ret' = NULL
           /\ UNCHANGED <<frames, base, overrun>>

EndExt ==
    /\ frames # <<>>
    /\ \E bnExtType \in {BIGNUM_EXT_MONT, BIGNUM_EXT_MUL1, BIGNUM_EXT_MUL2},
          below \in BelowOf(bnCTX) :
        /\ bnCTX' = BN_CTX_end_ext(bnCTX, bnExtType, below)
        /\ arg' = bnExtType
    /\ frames' = SubSeq(frames, 1, Len(frames) - 1)
    /\ op' = "end_ext"
    /\ ret' = NULL
    /\ UNCHANGED <<base, overrun>>

Final ==
    /\ bnCTX' = BN_CTX_final(bnCTX)
    /\ frames' = <<>>
    /\ base' = {}
    /\ overrun' = (overrun /\ ~sanityCheckBNCTX(bnCTX))
    /\ op' = "final"
    /\ arg' = BIGNUM_EXT_NONE
    /\ ret' = NULL

\* The standard pool: checkpoints, temporaries and the caller's writes.
Next ==
    \/ Start /\ UNCHANGED bnVars
    \/ Get /\ UNCHANGED bnVars
    \/ End /\ UNCHANGED bnVars
    \/ Write /\ UNCHANGED bnVars
    \/ Final /\ UNCHANGED bnVars

Spec == Init /\ [][Next]_vars

\* The extended bignums alongside the checkpoints.
NextExt ==
    \/ Start /\ UNCHANGED bnVars
    \/ Get /\ UNCHANGED bnVars
    \/ End /\ UNCHANGED bnVars
    \/ GetExt /\ UNCHANGED bnVars
    \/ WriteExt /\ UNCHANGED bnVars
    \/ EndExt /\ UNCHANGED bnVars
    \/ Final /\ UNCHANGED bnVars

SpecExt == Init /\ [][NextExt]_vars

(***************************************************************************)
(* Properties of the pool allocator                                        *)
(***************************************************************************)
Slots == 0 .. BN_CTX_ARRAY_SIZE - 1

\* The checkpoint the caller closes with its next BN_CTX_end.
Innermost == frames[Len(frames)]

\* n further BN_CTX_get calls each return a bignum that reads back top = 0.
RECURSIVE GetsReadCleared(_, _)
GetsReadCleared(ctx, n) ==
    \/ n = 0
    \/ LET r == BN_CTX_get(ctx)
       IN /\ r.ret # NULL
          /\ r.ctx.bnArray[r.ret[2]].top = 0
          /\ GetsReadCleared(r.ctx, n - 1)

(* C1: every BN_CTX_end that closes an open checkpoint, on a context whose *)
(* checkpoint stack has not been overrun, pops exactly one frame: the      *)
(* depth goes down by one and the active top is again what it was just     *)
(* before the matching BN_CTX_start, however many temporaries the          *)
(* checkpoint handed out.                                                  *)
C1_EndPopsOneFrame ==
    [][(op' = "end" /\ ~overrun)
        => /\ bnCTX'.stackPos = bnCTX.stackPos - 1
           /\ ActiveTop(bnCTX') = Innermost.mark]_vars

(* C2: the BN_CTX_end matching a BN_CTX_start leaves every slot handed out *)
(* in between cleared, whatever was written into it, and a BN_CTX_start    *)
(* followed by as many BN_CTX_get calls again returns bignums that read    *)
(* back top = 0.  Stated for contexts whose checkpoint stack has not been  *)
(* overrun and has room for the further BN_CTX_start.                      *)
C2_CheckpointZeroing ==
    [][(op' = "end" /\ ~overrun /\ bnCTX'.stackPos + 1 < BN_CTX_ARRAY_SIZE)
        => /\ \A i \in Innermost.slots : IsCleared(bnCTX'.bnArray[i])
           /\ GetsReadCleared(BN_CTX_start(bnCTX', FALSE),
                              Cardinality(Innermost.slots))]_vars

(* C3: at any nesting depth the checkpoint stack holds, a BN_CTX_end       *)
(* changes no pool slot other than those handed out in the checkpoint it   *)
(* closes: the words, top and sign of every other slot, the live ones of   *)
(* the enclosing checkpoints among them, are what they were.               *)
C3_NestingFrameEffect ==
    [][(op' = "end" /\ ~overrun)
        => \A i \in Slots \ Innermost.slots :
              bnCTX'.bnArray[i] = bnCTX.bnArray[i]]_vars

\* Three checkpoints deep, each level with a temporary holding what was
\* written into it, the innermost one just closed: the two outer levels'
\* temporaries still hold their values.
C3_Witness ==
    /\ op = "end"
    /\ ~overrun
    /\ Len(frames) = 2
    /\ bnCTX.stackPos = 2
    /\ frames[1].slots # {}
    /\ frames[2].slots # {}
    /\ \A i \in frames[1].slots \cup frames[2].slots :
          bnCTX.bnArray[i] = WriteInto(BN_init, i)
    /\ bnCTX.bnArrayMax > ActiveTop(bnCTX)
    /\ \A i \in Slots \ LiveSlots : IsCleared(bnCTX.bnArray[i])

(* C4: with every standard slot live, BN_CTX_get returns NULL and leaves   *)
(* the whole BN_CTX as it was, each time it is called.                     *)
C4_ExhaustionDeterminism ==
    [][(op' = "get" /\ LiveSlots = Slots)
        => (ret' = NULL /\ bnCTX' = bnCTX)]_vars

\* A refused BN_CTX_get on a full pool whose slots all hold written values.
C4_Witness ==
    /\ op = "get"
    /\ ret = NULL
    /\ LiveSlots = Slots
    /\ \A i \in Slots : bnCTX.bnArray[i] = WriteInto(BN_init, i)

(* C5: a successful BN_CTX_get returns the slot at the active top, moves   *)
(* the active top up by one, and the slot is inside the pool and not one   *)
(* already handed out in a checkpoint that is still open.                  *)
C5_NoReuseOfInFlightSlots ==
    [][(op' = "get" /\ ret' # NULL)
        => /\ ret' = <<"bnArray", ActiveTop(bnCTX)>>
           /\ ActiveTop(bnCTX') = ActiveTop(bnCTX) + 1
           /\ ret'[2] \in Slots
           /\ ret'[2] \notin LiveSlots]_vars

(* C6: stackPos stays within the range sanityCheckBNCTX accepts, however   *)
(* many BN_CTX_start calls are nested.                                     *)
C6_DepthInRange ==
    bnCTX.stackPos >= 0 /\ bnCTX.stackPos < BN_CTX_ARRAY_SIZE

(* C7: the boundaries recorded in stack[] are non-decreasing up to the     *)
(* active one, the active top is at most bnArrayMax, and bnArrayMax is at  *)
(* most BN_CTX_ARRAY_SIZE.                                                 *)
C7_BoundaryInvariant ==
    /\ \A k \in 0 .. bnCTX.stackPos - 1 :
          (k + 1) \in DOMAIN bnCTX.stack => bnCTX.stack[k] <= bnCTX.stack[k + 1]
    /\ bnCTX.stackPos \in DOMAIN bnCTX.stack
          => bnCTX.stack[bnCTX.stackPos] <= bnCTX.bnArrayMax
    /\ bnCTX.bnArrayMax <= BN_CTX_ARRAY_SIZE

\* Three strictly increasing boundaries below a high-water mark that an
\* earlier, closed checkpoint pushed past the active top.
C7_Witness ==
    /\ bnCTX.stackPos = 2
    /\ bnCTX.stack[0] < bnCTX.stack[1]
    /\ bnCTX.stack[1] < bnCTX.stack[2]
    /\ bnCTX.stack[2] < bnCTX.bnArrayMax
    /\ op = "get"

(***************************************************************************)
(* Properties of the extended bignums                                      *)
(***************************************************************************)
ExtTags == {BIGNUM_EXT_MONT, BIGNUM_EXT_MUL1, BIGNUM_EXT_MUL2}

\* The extended bignum BN_CTX_get_ext returns for a tag.
ExtOf(ctx, bnExtType) == ExtAt(ctx, BN_CTX_get_ext(ctx, bnExtType))

\* The standard pool and the checkpoint stack of two contexts agree.
SameStandardPart(c1, c2) ==
    /\ c1.bnArray = c2.bnArray
    /\ c1.bnArrayMax = c2.bnArrayMax
    /\ c1.stack = c2.stack
    /\ c1.stackPos = c2.stackPos

(* C8 as stated: for each of the tags MONT, MUL1 and MUL2, BN_CTX_end_ext  *)
(* does what BN_CTX_end does to the standard pool and leaves the extended  *)
(* bignum named by the tag cleared.                                        *)
C8_EndExtClearsNamedSlot ==
    [][(op' = "end_ext")
        => /\ \E below \in BelowOf(bnCTX) :
                  SameStandardPart(bnCTX', BN_CTX_end(bnCTX, below))
           /\ IsCleared(ExtOf(bnCTX', arg'))]_vars

(* C8 amended: BN_CTX_end_ext does what BN_CTX_end does to the standard    *)
(* pool; with MONT it leaves the MONT bignum cleared and the other two     *)
(* untouched, with MUL1 it leaves both the MUL1 and the MUL2 bignum        *)
(* cleared and MONT untouched, and with MUL2 it touches no extended        *)
(* bignum at all.                                                          *)
C8_EndExtAmended ==
    [][(op' = "end_ext")
        => /\ \E below \in BelowOf(bnCTX) :
                  SameStandardPart(bnCTX', BN_CTX_end(bnCTX, below))
           /\ arg' = BIGNUM_EXT_MONT
                 => /\ IsCleared(ExtOf(bnCTX', BIGNUM_EXT_MONT))
                    /\ bnCTX'.bnExt2Array = bnCTX.bnExt2Array
           /\ arg' = BIGNUM_EXT_MUL1
                 => /\ IsCleared(ExtOf(bnCTX', BIGNUM_EXT_MUL1))
                    /\ IsCleared(ExtOf(bnCTX', BIGNUM_EXT_MUL2))
                    /\ bnCTX'.bnExtArray = bnCTX.bnExtArray
           /\ arg' = BIGNUM_EXT_MUL2
                 => /\ bnCTX'.bnExtArray = bnCTX.bnExtArray
                    /\ bnCTX'.bnExt2Array = bnCTX.bnExt2Array]_vars

\* BN_CTX_end_ext( MUL1 ) has run with all three extended bignums written
\* at some point: MUL1 and MUL2 are clear, MONT still holds its value.
C8_Witness ==
    /\ op = "end_ext"
    /\ arg = BIGNUM_EXT_MUL1
    /\ IsCleared(ExtOf(bnCTX, BIGNUM_EXT_MUL1))
    /\ IsCleared(ExtOf(bnCTX, BIGNUM_EXT_MUL2))
    /\ ExtOf(bnCTX, BIGNUM_EXT_MONT) = WriteInto(BN_init_ext(FALSE), 0)
    /\ bnCTX.bnArrayMax > 0

(***************************************************************************)
(* The bignum operations, one call at a time                               *)
(*                                                                         *)
(* x0 is a bignum as a caller can hold it: sanityCheckBignum accepts it    *)
(* and its capacity is that of its class.  One operation is applied to it; *)
(* x is the bignum afterwards, bop/barg/bret the call, its scalar argument *)
(* and its result.  Operations on two bignums take the second one, y0,     *)
(* from Operands and leave it in y.                                        *)
(***************************************************************************)
\* Every bignum of the given class that sanityCheckBignum accepts.
BignumsOf(flags, dmax) ==
    {[dmax |-> dmax, top |-> t, neg |-> n, flags |-> flags, d |-> w] :
        t \in 0 .. dmax, n \in BOOLEAN, w \in [0 .. dmax - 1 -> Word]}

\* Those of them whose words all hold the same value.
UniformBignumsOf(flags, dmax) ==
    {b \in BignumsOf(flags, dmax) : \A i \in DOMAIN b.d : b.d[i] = b.d[0]}

Inputs ==
    BignumsOf({}, BIGNUM_ALLOC_WORDS)
        \cup BignumsOf({BN_FLG_ALLOC_EXT}, BIGNUM_ALLOC_WORDS_EXT)
        \cup UniformBignumsOf({BN_FLG_ALLOC_EXT2}, BIGNUM_ALLOC_WORDS_EXT2)
        \cup {BN_value_one}

Operands ==
    {BN_value_one, BN_init, WriteInto(BN_init, BIGNUM_ALLOC_WORDS - 1),
     WriteInto(BN_init_ext(FALSE), BIGNUM_ALLOC_WORDS_EXT - 1)}

\* Bit numbers a caller passes: every bit of the largest class, and one
\* to either side.
BitNos == -1 .. BIGNUM_ALLOC_WORDS_EXT2 * BN_BITS2

BnInit ==
    /\ pc = "call"
    /\ x0 \in Inputs
    /\ x = x0
    /\ y0 = BN_init
    /\ y = BN_init
    /\ bop = "none"
    /\ barg = 0
    /\ bret = FALSE
    /\ recp = BN_RECP_CTX_init

InitBN == CtxInit /\ BnInit

\* What every call records.
Done(name, a, r, newX) ==
    /\ pc' = "done"
    /\ bop' = name
    /\ barg' = a
    /\ bret' = r
    /\ x' = newX
    /\ x0' = x0
    /\ recp' = recp

(* The bignum BN_value_one returns is a static const object.  A store     *)
(* into it is undefined behaviour: where the object lies in read-only      *)
(* memory the store traps and the call never returns, elsewhere the store  *)
(* is carried out.  Among the inputs only BN_value_one stands for it.      *)
IsConstObject(bignum) == bignum = BN_value_one

\* What a call that trapped at a store into the const object leaves: the
\* bignums as they were at the trap, and no result.
Trapped(name, a, atTrapX) ==
    /\ pc' = "trap"
    /\ bop' = name
    /\ barg' = a
    /\ bret' = FALSE
    /\ x' = atTrapX
    /\ x0' = x0
    /\ recp' = recp

(* BN_init( bignum ) on an object that holds a bignum: the memset covers   *)
(* sizeof( BIGNUM ), which is the header and the first BIGNUM_ALLOC_WORDS  *)
(* words; the further words of an extended object keep what they held.     *)
InitOver(bignum) ==
    [BN_init EXCEPT !.d = [i \in DOMAIN bignum.d |->
                             IF i < BIGNUM_ALLOC_WORDS THEN 0 ELSE bignum.d[i]]]

\* BN_init( x ): no check of any kind precedes the memset.
CallInit ==
    /\ pc = "call"
    /\ \/ Done("init", 0, TRUE, InitOver(x))
       \/ IsConstObject(x) /\ Trapped("init", 0, x)
    /\ UNCHANGED <<y, y0>>

CallClear ==
    /\ pc = "call"
    /\ Done("clear", 0, TRUE, BN_clear(x))
    /\ UNCHANGED <<y, y0>>

CallSetWord ==
    /\ pc = "call"
    /\ \E word \in Word :
          LET r == BN_set_word(x, word) IN Done("set_word", word, r.ret, r.bn)
    /\ UNCHANGED <<y, y0>>

CallSetBit ==
    /\ pc = "call"
    /\ \E bitNo \in BitNos :
          LET r == BN_set_bit(x, bitNo) IN Done("set_bit", bitNo, r.ret, r.bn)
    /\ UNCHANGED <<y, y0>>

CallSetNegative ==
    /\ pc = "call"
    /\ \E value \in {0, 1} :
          \/ Done("set_negative", value, TRUE, BN_set_negative(x, value))
          \/ /\ IsConstObject(x)
             /\ ~BN_is_zero(x)
             /\ Trapped("set_negative", value, x)
    /\ UNCHANGED <<y, y0>>

CallNormalise ==
    /\ pc = "call"
    /\ LET r == BN_normalise(x) IN Done("normalise", 0, r.ret, r.bn)
    /\ UNCHANGED <<y, y0>>

(* BN_copy( x, y ), and BN_copy( y, x ).  A copy that passes its checks     *)
(* stores into the destination.                                            *)
CallCopy ==
    /\ pc = "call"
    /\ \E o \in Operands :
          /\ y0' = o
          /\ \/ LET r == BN_copy(x, o) IN Done("copy_to", 0, r.ret, r.bn) /\ y' = o
             \/ LET r == BN_copy(x, o)
                IN IsConstObject(x) /\ r.ret /\ Trapped("copy_to", 0, x) /\ y' = o
             \/ LET r == BN_copy(o, x) IN Done("copy_from", 0, r.ret, x) /\ y' = r.bn
             \/ LET r == BN_copy(o, x)
                IN IsConstObject(o) /\ r.ret /\ Trapped("copy_from", 0, x) /\ y' = o

(* BN_swap( x, y ), and BN_swap( y, x ).  The first store into bignum2 is   *)
(* made by the third BN_copy, when bignum1 already holds the value of      *)
(* bignum2; the third copy is reached and stores exactly when the swap     *)
(* would succeed.                                                          *)
CallSwap ==
    /\ pc = "call"
    /\ \E o \in Operands :
          /\ y0' = o
          /\ \/ LET r == BN_swap(x, o) IN Done("swap", 0, r.ret, r.bn1) /\ y' = r.bn2
             \/ LET r == BN_swap(x, o)
                IN IsConstObject(o) /\ r.ret /\ Trapped("swap", 0, r.bn1) /\ y' = o
             \/ LET r == BN_swap(o, x) IN Done("swap_rev", 0, r.ret, r.bn2) /\ y' = r.bn1
             \/ LET r == BN_swap(o, x)
                IN IsConstObject(x) /\ r.ret /\ Trapped("swap_rev", 0, x) /\ y' = r.bn1

CallIsBitSet ==
    /\ pc = "call"
    /\ \E bitNo \in BitNos : Done("is_bit_set", bitNo, BN_is_bit_set(x, bitNo), x)
    /\ UNCHANGED <<y, y0>>

CallGetWord ==
    /\ pc = "call"
    /\ Done("get_word", 0, BN_get_word(x), x)
    /\ UNCHANGED <<y, y0>>

CallNumBits ==
    /\ pc = "call"
    /\ Done("num_bits", 0, BN_num_bits(x), x)
    /\ UNCHANGED <<y, y0>>

CallNumBitsWord ==
    /\ pc = "call"
    /\ \E word \in Word : Done("num_bits_word", word, BN_num_bits_word(word), x)
    /\ UNCHANGED <<y, y0>>

\* BN_dup( x ), with clAlloc succeeding (barg = 1) or not; y is the bignum
\* returned.
CallDup ==
    /\ pc = "call"
    /\ \E allocated \in BOOLEAN :
          LET r == BN_dup(x, allocated)
          IN /\ Done("dup", IF allocated THEN 1 ELSE 0, r.ret, x)
             /\ y' = IF r.ret THEN r.bn ELSE y
    /\ UNCHANGED y0

\* A BN_RECP_CTX in use: a modulus, a reciprocal and a bit-length.
RecpUsed ==
    [N |-> WriteInto(BN_init, BIGNUM_ALLOC_WORDS - 1),
     Nr |-> WriteInto(BN_init, 0),
     num_bits |-> BIGNUM_ALLOC_WORDS * BN_BITS2]

\* What a BN_RECP_CTX may hold when it is set up or freed: nothing yet,
\* the values of an earlier use, or what BN_RECP_CTX_free left of them.
RecpBefore == {BN_RECP_CTX_init, RecpUsed, BN_RECP_CTX_free(RecpUsed)}

\* How barg names the context a call was made on.
RecpKind(before) ==
    IF before = BN_RECP_CTX_init THEN 0 ELSE IF before = RecpUsed THEN 1 ELSE 2

\* BN_RECP_CTX_set( recp, x, bnCTX ) on a context that is fresh (barg = 0),
\* has been used (barg = 1) or has been freed (barg = 2).
CallRecpSet ==
    /\ pc = "call"
    /\ \E before \in RecpBefore :
          LET r == BN_RECP_CTX_set(before, x)
          IN /\ recp' = r.ctx
             /\ bret' = r.ret
             /\ barg' = RecpKind(before)
    /\ pc' = "done"
    /\ bop' = "recp_set"
    /\ UNCHANGED <<x, x0, y, y0>>

\* BN_RECP_CTX_free( recp ) on a fresh, used or freed context.
CallRecpFree ==
    /\ pc = "call"
    /\ \E before \in RecpBefore :
          /\ recp' = BN_RECP_CTX_free(before)
          /\ barg' = RecpKind(before)
    /\ pc' = "done"
    /\ bop' = "recp_free"
    /\ bret' = TRUE
    /\ UNCHANGED <<x, x0, y, y0>>

NextBN ==
    \/ CallInit /\ UNCHANGED ctxVars
    \/ CallClear /\ UNCHANGED ctxVars
    \/ CallSetWord /\ UNCHANGED ctxVars
    \/ CallSetBit /\ UNCHANGED ctxVars
    \/ CallSetNegative /\ UNCHANGED ctxVars
    \/ CallNormalise /\ UNCHANGED ctxVars
    \/ CallCopy /\ UNCHANGED ctxVars
    \/ CallSwap /\ UNCHANGED ctxVars
    \/ CallIsBitSet /\ UNCHANGED ctxVars
    \/ CallGetWord /\ UNCHANGED ctxVars
    \/ CallNumBits /\ UNCHANGED ctxVars
    \/ CallNumBitsWord /\ UNCHANGED ctxVars
    \/ CallDup /\ UNCHANGED ctxVars
    \/ CallRecpSet /\ UNCHANGED ctxVars
    \/ CallRecpFree /\ UNCHANGED ctxVars

SpecBN == InitBN /\ [][NextBN]_vars

(***************************************************************************)
(* Properties of the bignum operations                                     *)
(***************************************************************************)
\* C9: BN_set_bit on a bignum that is not static, with a bit number inside
\* the bignum's capacity, succeeds, and BN_is_bit_set then reports the bit
\* as set.
C9_BitRoundTrip ==
    (pc = "done" /\ bop = "set_bit"
        /\ BN_FLG_STATIC_DATA \notin x0.flags
        /\ barg >= 0 /\ barg < x0.dmax * BN_BITS2)
    => (bret = TRUE /\ BN_is_bit_set(x, barg) = TRUE)

\* A bignum in canonical form: a value of zero is not negative.
Canonical(bignum) == bignum.top = 0 => bignum.neg = FALSE

\* C10: after any operation on bignums that were canonical before it, a
\* bignum whose top is 0 is not negative; BN_set_word with 0 leaves top 0.
C10_CanonicalZero ==
    (pc = "done" /\ Canonical(x0) /\ Canonical(y0))
    => /\ Canonical(x)
       /\ Canonical(y)
       /\ (bop = "set_word" /\ barg = 0 /\ bret) => x.top = 0

\* Two bignums hold the same value: the same words in use, the same sign.
SameValue(b1, b2) ==
    /\ b1.top = b2.top
    /\ b1.neg = b2.neg
    /\ \A i \in 0 .. b1.top - 1 : b1.d[i] = b2.d[i]

\* The capacity and the allocation class of a bignum are what they were.
SameClass(b1, b2) == b1.dmax = b2.dmax /\ b1.flags = b2.flags

\* C11: BN_copy into a bignum whose capacity holds the words the source
\* has in use succeeds; the destination then has the source's top, words
\* below top and sign, and keeps its own capacity and flags; the source is
\* unchanged.
C11_CopyFidelity ==
    /\ (pc \in {"done", "trap"} /\ bop = "copy_to" /\ x0.dmax >= y0.top)
          => /\ pc = "done"
             /\ bret /\ SameValue(x, y0) /\ SameClass(x, x0) /\ y = y0
    /\ (pc \in {"done", "trap"} /\ bop = "copy_from" /\ y0.dmax >= x0.top)
          => /\ pc = "done"
             /\ bret /\ SameValue(y, x0) /\ SameClass(y, y0) /\ x = x0

\* C12: no operation changes a bignum flagged BN_FLG_STATIC_DATA, in
\* whichever argument position it is passed; BN_swap with a static operand
\* changes neither operand.
C12_StaticImmutable ==
    pc \in {"done", "trap"}
    => /\ BN_FLG_STATIC_DATA \in x0.flags => x = x0
       /\ BN_FLG_STATIC_DATA \in y0.flags => y = y0
       /\ (bop \in {"swap", "swap_rev"}
             /\ (BN_FLG_STATIC_DATA \in x0.flags \/ BN_FLG_STATIC_DATA \in y0.flags))
          => (x = x0 /\ y = y0)

\* C13: BN_clear on a bignum that is not static zeroes every word of its
\* capacity, sets top to 0 and the sign to FALSE and keeps capacity and
\* flags; on a static bignum it changes nothing.
C13_ClearZeroisesCapacity ==
    (pc = "done" /\ bop = "clear")
    => IF BN_FLG_STATIC_DATA \in x0.flags THEN x = x0
       ELSE IsCleared(x) /\ SameClass(x, x0)

\* A cleared extended bignum that had one word in use, a sign, and nonzero
\* residue in every word above it.
C13_Witness ==
    /\ pc = "done"
    /\ bop = "clear"
    /\ BN_FLG_ALLOC_EXT \in x0.flags
    /\ x0.top = 1
    /\ x0.neg = TRUE
    /\ \A i \in DOMAIN x0.d : x0.d[i] = WordMax
    /\ IsCleared(x)

\* The number a bignum's words in use stand for, least significant first.
RECURSIVE Magnitude(_, _)
Magnitude(d, top) ==
    IF top <= 0 THEN 0
    ELSE d[top - 1] * Pow2(BN_BITS2 * (top - 1)) + Magnitude(d, top - 1)

\* C14: BN_is_bit_set leaves the bignum as it was and answers every bit
\* number: FALSE for a negative one and for one whose word is at or past
\* top, and the bit of the value for one inside the words in use.
C14_IsBitSet ==
    (pc = "done" /\ bop = "is_bit_set")
    => /\ x = x0
       /\ bret \in BOOLEAN
       /\ barg < 0 => bret = FALSE
       /\ (barg >= 0 /\ barg \div BN_BITS2 >= x0.top) => bret = FALSE
       /\ (barg >= 0 /\ barg < x0.top * BN_BITS2)
             => (bret <=> (Magnitude(x0.d, x0.top) \div Pow2(barg)) % 2 = 1)

\* A query for a bit that is set in a word above top, left over from an
\* earlier value, answered FALSE.
C14_Witness ==
    /\ pc = "done"
    /\ bop = "is_bit_set"
    /\ x0.top = 1
    /\ x0.d[1] = WordMax
    /\ barg = BN_BITS2
    /\ bret = FALSE

\* C15: BN_set_word on a bignum that is not static succeeds and leaves the
\* word as the value, not negative, with every higher word zero, and
\* BN_get_word then returns the word; BN_get_word changes nothing, returns
\* BN_NAN when more than one word is in use and 0 when none is.
C15_WordFastPath ==
    /\ (pc = "done" /\ bop = "set_word" /\ BN_FLG_STATIC_DATA \notin x0.flags)
          => /\ bret = TRUE
             /\ x.neg = FALSE
             /\ x.top = (IF barg # 0 THEN 1 ELSE 0)
             /\ Magnitude(x.d, x.top) = barg
             /\ \A i \in 1 .. x.dmax - 1 : x.d[i] = 0
             /\ SameClass(x, x0)
             /\ BN_get_word(x) = barg
    /\ (pc = "done" /\ bop = "get_word")
          => /\ x = x0
             /\ x0.top > 1 => bret = BN_NAN
             /\ x0.top = 0 => bret = 0

\* A nonzero word stored over a negative value that used every word of an
\* extended bignum.
C15_Witness ==
    /\ pc = "done"
    /\ bop = "set_word"
    /\ barg = 1
    /\ BN_FLG_ALLOC_EXT \in x0.flags
    /\ x0.top = BIGNUM_ALLOC_WORDS_EXT
    /\ x0.neg = TRUE
    /\ \A i \in DOMAIN x0.d : x0.d[i] = WordMax
    /\ BN_get_word(x) = 1
    /\ x.top = 1

\* The bit-length of a number: the n with 2^(n-1) <= v < 2^n, 0 for 0.
RECURSIVE BitLength(_)
BitLength(v) == IF v <= 0 THEN 0 ELSE 1 + BitLength(v \div 2)

\* The last word in use is not zero.
Normalised(bignum) == bignum.top = 0 \/ bignum.d[bignum.top - 1] # 0

\* C16: BN_num_bits returns the bit-length of the value held in the words
\* below top, for every bignum sanityCheckBignum accepts, and
\* BN_num_bits_word the bit-length of a word.
C16_NumBitsIsBitLength ==
    /\ (pc = "done" /\ bop = "num_bits")
          => bret = BitLength(Magnitude(x0.d, x0.top))
    /\ (pc = "done" /\ bop = "num_bits_word") => bret = BitLength(barg)

\* C16, amended: BN_num_bits returns the bits of the words below the last
\* one in use plus the bit-length of that word, which is the bit-length of
\* the value when that word is not zero; BN_num_bits_word returns the
\* bit-length of a word.  Neither changes the bignum.
C16_NumBitsAmended ==
    /\ (pc = "done" /\ bop = "num_bits")
          => /\ x = x0
             /\ bret = (IF x0.top = 0 THEN 0
                        ELSE (x0.top - 1) * BN_BITS2 + BitLength(x0.d[x0.top - 1]))
             /\ Normalised(x0) => bret = BitLength(Magnitude(x0.d, x0.top))
    /\ (pc = "done" /\ bop = "num_bits_word") => bret = BitLength(barg)

\* The length of a value that fills an extended bignum up to the lowest
\* bit of its last word.
C16_Witness ==
    /\ pc = "done"
    /\ bop = "num_bits"
    /\ x0.top = BIGNUM_ALLOC_WORDS_EXT
    /\ x0.d[x0.top - 1] = 1
    /\ x0.d[0] = WordMax
    /\ bret = (BIGNUM_ALLOC_WORDS_EXT - 1) * BN_BITS2 + 1

\* The largest t <= top with t = 0 or d[t - 1] # 0.
NormalTop(bignum) ==
    CHOOSE t \in 0 .. bignum.top :
        /\ t = 0 \/ bignum.d[t - 1] # 0
        /\ \A u \in t + 1 .. bignum.top : bignum.d[u - 1] = 0

\* C17: BN_normalise succeeds on every bignum sanityCheckBignum accepts,
\* changes no word, and leaves top at the largest t not above the old top
\* with t = 0 or a nonzero word at t - 1.
C17_NormaliseSucceeds ==
    (pc = "done" /\ bop = "normalise")
    => /\ bret = TRUE
       /\ x.d = x0.d
       /\ x.top = NormalTop(x0)

\* BN_swap( a, b ) has room for both values: a's in the temporary of
\* standard capacity and in b, b's in a.
SwapFits(a, b) ==
    /\ a.top <= BIGNUM_ALLOC_WORDS
    /\ b.top <= a.dmax
    /\ a.top <= b.dmax

\* What C18 says of BN_swap( a, b ) taking a0, b0 to a1, b1 with result r.
Exchanged(a0, b0, a1, b1, r) ==
    /\ SameClass(a1, a0)
    /\ SameClass(b1, b0)
    /\ r = SwapFits(a0, b0)
    /\ IF r THEN SameValue(a1, b0) /\ SameValue(b1, a0)
       ELSE SameValue(a1, a0) /\ SameValue(b1, b0)

\* C18: BN_swap on two bignums that are not static either exchanges their
\* values and signs or, when a value does not fit, fails and leaves both
\* as they were; capacity and flags never change.
C18_SwapAtomic ==
    /\ (pc = "done" /\ bop = "swap"
          /\ BN_FLG_STATIC_DATA \notin x0.flags /\ BN_FLG_STATIC_DATA \notin y0.flags)
       => Exchanged(x0, y0, x, y, bret)
    /\ (pc = "done" /\ bop = "swap_rev"
          /\ BN_FLG_STATIC_DATA \notin x0.flags /\ BN_FLG_STATIC_DATA \notin y0.flags)
       => Exchanged(y0, x0, y, x, bret)

\* A small positive value in an extended bignum exchanged with a negative
\* value that fills a standard one.
C18_Witness ==
    /\ pc = "done"
    /\ bop = "swap"
    /\ bret = TRUE
    /\ BN_FLG_ALLOC_EXT \in x0.flags
    /\ x0.top = 1
    /\ x0.d[0] = 1
    /\ x0.neg = FALSE
    /\ y0 = WriteInto(BN_init, BIGNUM_ALLOC_WORDS - 1)
    /\ SameValue(x, y0)
    /\ SameValue(y, x0)

\* C19: whenever the allocation succeeds, BN_dup of a bignum that
\* sanityCheckBignum accepts returns a new heap bignum with the source's
\* value and sign, and the source is unchanged.
C19_DupFailsOnlyOnAlloc ==
    (pc = "done" /\ bop = "dup" /\ barg = 1)
    => /\ bret = TRUE
       /\ SameValue(y, x0)
       /\ BN_FLG_MALLOCED \in y.flags
       /\ x = x0

\* C19, amended: BN_dup returns a bignum exactly when the allocation
\* succeeds and the source has no more words in use than the standard
\* capacity; the bignum returned is a heap bignum of standard capacity with
\* the source's value and sign; the source is unchanged either way.
C19_DupAmended ==
    (pc = "done" /\ bop = "dup")
    => /\ x = x0
       /\ bret = (barg = 1 /\ x0.top <= BIGNUM_ALLOC_WORDS)
       /\ bret => /\ SameValue(y, x0)
                  /\ y.flags = {BN_FLG_MALLOCED}
                  /\ y.dmax = BIGNUM_ALLOC_WORDS

\* The duplicate of a negative value that fills the first words of an
\* extended bignum, as many as a standard one holds.
C19_Witness ==
    /\ pc = "done"
    /\ bop = "dup"
    /\ bret = TRUE
    /\ BN_FLG_ALLOC_EXT \in x0.flags
    /\ x0.top = BIGNUM_ALLOC_WORDS
    /\ x0.neg = TRUE
    /\ \A i \in DOMAIN x0.d : x0.d[i] = WordMax
    /\ SameValue(y, x0)
    /\ y.flags = {BN_FLG_MALLOCED}

\* C20: BN_RECP_CTX_set with a modulus whose words in use fit the standard
\* capacity succeeds whatever the context held: N has the value and sign
\* of the modulus, Nr is zero, num_bits is BN_num_bits of the modulus, and
\* setting the same modulus again gives the same context.
C20_RecpSet ==
    (pc = "done" /\ bop = "recp_set" /\ x0.top <= BIGNUM_ALLOC_WORDS)
    => /\ bret = TRUE
       /\ SameValue(recp.N, x0)
       /\ recp.Nr.top = 0
       /\ recp.num_bits = BN_num_bits(x0)
       /\ BN_RECP_CTX_set(recp, x0) = [ctx |-> recp, ret |-> TRUE]
       /\ x = x0

\* A used context set up with a negative modulus that fills a standard
\* bignum.
C20_Witness ==
    /\ pc = "done"
    /\ bop = "recp_set"
    /\ barg = 1
    /\ bret = TRUE
    /\ x0.flags = {}
    /\ x0.top = BIGNUM_ALLOC_WORDS
    /\ x0.neg = TRUE
    /\ \A i \in DOMAIN x0.d : x0.d[i] = 1
    /\ SameValue(recp.N, x0)
    /\ recp.num_bits = (BIGNUM_ALLOC_WORDS - 1) * BN_BITS2 + 1

(***************************************************************************)
(* Properties of the whole BN_CTX                                          *)
(***************************************************************************)
(* C21: BN_CTX_final, from any state the calls on a BN_CTX reach, returns  *)
(* the context to what BN_CTX_init produces: stackPos 0, every boundary 0, *)
(* bnArrayMax 0, every standard and extended bignum cleared with the       *)
(* capacity and flags of its class.                                        *)
C21_FinalResets ==
    [][op' = "final" => bnCTX' = BN_CTX_init]_vars


(* C22: BN_CTX_get_ext with a tag outside {MONT, MUL1, MUL2} returns NULL, *)
(* each of the three named tags returns its own fixed extended bignum      *)
(* (MONT bnExtArray[0], MUL1 bnExt2Array[0], MUL2 bnExt2Array[1]), and in  *)
(* both cases the whole context, the boundary stack, the depth and         *)
(* bnArrayMax included, is left as it was.                                 *)
C22_GetExtByTag ==
    [][op' = "get_ext" =>
         /\ bnCTX' = bnCTX
         /\ arg' \notin {BIGNUM_EXT_MONT, BIGNUM_EXT_MUL1, BIGNUM_EXT_MUL2}
                => ret' = NULL
         /\ arg' = BIGNUM_EXT_MONT => ret' = <<"bnExtArray", 0>>
         /\ arg' = BIGNUM_EXT_MUL1 => ret' = <<"bnExt2Array", 0>>
         /\ arg' = BIGNUM_EXT_MUL2 => ret' = <<"bnExt2Array", 1>>]_vars

\* A request with the tag BIGNUM_EXT_LAST was refused on a context with
\* bignums handed out and a checkpoint open.
C22_Witness ==
    /\ op = "get_ext"
    /\ arg = BIGNUM_EXT_LAST
    /\ ret = NULL
    /\ bnCTX.stackPos >= 1
    /\ bnCTX.bnArrayMax >= 1


(* C23: while no BN_CTX_start has gone past the end of stack[] and the     *)
(* depth is in range, BN_CTX_get returns a bignum whenever the active top  *)
(* stack[ stackPos ] is below BN_CTX_ARRAY_SIZE and returns NULL exactly   *)
(* when the active top equals BN_CTX_ARRAY_SIZE: the test of bnArrayMax    *)
(* never refuses a bignum while slots remain above the active top.         *)
C23_GetFailsOnlyWhenFull ==
    [][op' = "get" /\ ~overrun /\ sanityCheckBNCTX(bnCTX) =>
         /\ ActiveTop(bnCTX) < BN_CTX_ARRAY_SIZE => ret' # NULL
         /\ ret' = NULL <=> ActiveTop(bnCTX) = BN_CTX_ARRAY_SIZE]_vars


\* BN_CTX_get returned a bignum in a checkpoint opened after an earlier one
\* had been ended, with bnArrayMax still above the active top.
C23_Witness ==
    /\ op = "get"
    /\ ret # NULL
    /\ ~overrun
    /\ sanityCheckBNCTX(bnCTX)
    /\ bnCTX.stackPos >= 1
    /\ ActiveTop(bnCTX) < bnCTX.bnArrayMax


(* C24: in every state the BN_CTX_start, BN_CTX_get and BN_CTX_end calls   *)
(* and the writes into bignums of open checkpoints reach, every bnArray    *)
(* slot at or above the active top stack[ stackPos ] is cleared (top 0, no *)
(* sign, every word of storage zero), so BN_CTX_get hands out cleared      *)
(* bignums.                                                                *)
C24_FreeSlotsClean ==
    bnCTX.stackPos \in DOMAIN bnCTX.stack =>
        \A i \in Slots : i >= ActiveTop(bnCTX) => IsCleared(bnCTX.bnArray[i])


(***************************************************************************)
(* Sequences of calls on two bignums                                       *)
(*                                                                         *)
(* x is a bignum set up by BN_init and y an extended one set up by         *)
(* BN_init_ext, as BN_CTX_init sets up bnArray[] and bnExtArray[].  The    *)
(* caller goes on calling the value operations on them, on either one and  *)
(* from one to the other, and never writes to their words or top itself.   *)
(* bop, barg and bret record the last call: its name, the bignum it was    *)
(* made on (0 for x, 1 for y) and what it returned.                        *)
(***************************************************************************)
SeqInit ==
    /\ pc = "seq"
    /\ x = BN_init
    /\ y = BN_init_ext(FALSE)
    /\ x0 = BN_init
    /\ y0 = BN_init_ext(FALSE)
    /\ bop = "none"
    /\ barg = 0
    /\ bret = FALSE
    /\ recp = BN_RECP_CTX_init

InitSeq == CtxInit /\ SeqInit

\* What every call of a sequence records.
SeqDone(name, a, r, newX, newY) ==
    /\ pc = "seq"
    /\ pc' = "seq"
    /\ bop' = name
    /\ barg' = a
    /\ bret' = r
    /\ x' = newX
    /\ y' = newY
    /\ UNCHANGED <<x0, y0, recp>>

SeqClear ==
    \/ SeqDone("clear", 0, TRUE, BN_clear(x), y)
    \/ SeqDone("clear", 1, TRUE, x, BN_clear(y))

SeqSetWord ==
    \E word \in Word :
        \/ LET r == BN_set_word(x, word) IN SeqDone("set_word", 0, r.ret, r.bn, y)
        \/ LET r == BN_set_word(y, word) IN SeqDone("set_word", 1, r.ret, x, r.bn)

SeqSetBit ==
    \E bitNo \in BitNos :
        \/ LET r == BN_set_bit(x, bitNo) IN SeqDone("set_bit", 0, r.ret, r.bn, y)
        \/ LET r == BN_set_bit(y, bitNo) IN SeqDone("set_bit", 1, r.ret, x, r.bn)

SeqSetNegative ==
    \E value \in {0, 1} :
        \/ SeqDone("set_negative", 0, TRUE, BN_set_negative(x, value), y)
        \/ SeqDone("set_negative", 1, TRUE, x, BN_set_negative(y, value))

SeqNormalise ==
    \/ LET r == BN_normalise(x) IN SeqDone("normalise", 0, r.ret, r.bn, y)
    \/ LET r == BN_normalise(y) IN SeqDone("normalise", 1, r.ret, x, r.bn)

\* BN_copy( x, y ), and BN_copy( y, x ).
SeqCopy ==
    \/ LET r == BN_copy(x, y) IN SeqDone("copy", 0, r.ret, r.bn, y)
    \/ LET r == BN_copy(y, x) IN SeqDone("copy", 1, r.ret, x, r.bn)

\* BN_swap( x, y ), and BN_swap( y, x ).
SeqSwap ==
    \/ LET r == BN_swap(x, y) IN SeqDone("swap", 0, r.ret, r.bn1, r.bn2)
    \/ LET r == BN_swap(y, x) IN SeqDone("swap", 1, r.ret, r.bn2, r.bn1)

NextSeq ==
    \/ SeqClear /\ UNCHANGED ctxVars
    \/ SeqSetWord /\ UNCHANGED ctxVars
    \/ SeqSetBit /\ UNCHANGED ctxVars
    \/ SeqSetNegative /\ UNCHANGED ctxVars
    \/ SeqNormalise /\ UNCHANGED ctxVars
    \/ SeqCopy /\ UNCHANGED ctxVars
    \/ SeqSwap /\ UNCHANGED ctxVars

SpecSeq == InitSeq /\ [][NextSeq]_vars

(* C25: every bignum a sequence of BN_clear, BN_set_word, BN_set_bit,      *)
(* BN_copy, BN_swap, BN_set_negative and BN_normalise calls produces from  *)
(* a bignum set up by BN_init or BN_CTX_init has top = 0 or a last word in *)
(* use that is not zero, so BN_num_bits returns the bit-length of its      *)
(* value and BN_get_word the value of a bignum of at most one word,        *)
(* although BN_copy and BN_set_bit leave the words above the new top as    *)
(* they were.                                                              *)
C25_NormalisedPreserved ==
    pc = "seq" =>
        \A b \in {x, y} :
            /\ Normalised(b)
            /\ BN_num_bits(b) = BitLength(Magnitude(b.d, b.top))
            /\ b.top <= 1 => BN_get_word(b) = Magnitude(b.d, b.top)

\* BN_copy has just copied a one-word value over a longer one: a word
\* above the new top still holds what it held.
C25_Witness ==
    /\ pc = "seq"
    /\ bop = "copy"
    /\ barg = 1
    /\ bret = TRUE
    /\ y.top = 1
    /\ y.d[1] # 0
====
